---- MODULE Spec2Model ----
(***************************************************************************)
(* Rs_gh_actions.py: the local controller that commits and pushes the      *)
(* hbb_common submodule and the rs-client superproject, triggers the       *)
(* GitHub Actions workflow, and waits for the run to start.                *)
(*                                                                         *)
(* Every external command goes through run_cmd / run_cmd_live.  The model  *)
(* keeps the list of the calls one command execution has issued, the       *)
(* global DRY_RUN flag, and the position of the controller in the code.    *)
(* Texts (stdout, stderr) are sequences of tokens; a substring test of the *)
(* code is a contiguous sub-sequence test.                                 *)
(***************************************************************************)
EXTENDS Integers, Sequences, FiniteSets, TLC

\* ------------------------------------------------------------------ bounds
\* Runs of the workflow the remote may already hold when the trigger is fired.
MaxOldRuns == 1

\* ------------------------------------------------------- program constants
DEFAULT_CMD_TIMEOUT == 300
GIT_PUSH_TIMEOUT == 600
MAX_WAIT == 30
POLL_INTERVAL == 2

HBB_COMMON == "hbb_common"
RS_CLIENT == "rs-client"
\* (mutant) the superproject is synced first
Repos_SuperprojectFirst == <<RS_CLIENT, HBB_COMMON>>

Repos == <<HBB_COMMON, RS_CLIENT>>

VARIABLES
    DRY_RUN,       \* the module-level flag
    args,          \* the argparse namespace of the running command
    pc,            \* position of the controller
    inPush,        \* build: TRUE once cmd_build has called cmd_push
    repo,          \* index in Repos of the repository being synced
    calls,         \* the calls this command handed to run_cmd / run_cmd_live
    last,          \* the most recent of them, with the CommandResult it returned
    clean,         \* repositories whose status query exited 0 with empty output
    synced,        \* per repository: "none", "ok" (True) or "fail" (False)
    hint,          \* the "please git pull first" hint was printed
    hbbDirExists,  \* HBB_COMMON_DIR.exists()
    triggered,     \* the trigger call returned 0
    baseline,      \* ids of the runs the remote held when the trigger was fired
    remoteRuns,    \* the remote's runs of the workflow, newest first
    elapsed,       \* time.time() - start_time in wait_for_workflow_start
    polls,         \* run-list queries issued by the polling loop
    sleeps,        \* time.sleep(2) calls of the polling loop
    waited,        \* "no": loop not left; "id": returned a run id; "none": returned None
    run_id,        \* the value wait_for_workflow_start returned
    crashed,       \* an exception left the command uncaught
    ret            \* <<>> while running, <<code>> once the process/command ended

vars == <<DRY_RUN, args, pc, inPush, repo, calls, last, clean, synced, hint,
          hbbDirExists, triggered, baseline, remoteRuns, elapsed, polls,
          sleeps, waited, run_id, crashed, ret>>

\* ------------------------------------------------------------------- texts
NoText == <<>>
DryText == <<"[dry-run]">>
TimeoutText == <<"timeout", "300">>
SpawnErrorText == <<"No", "such", "file", "or", "directory">>
NothingToCommit == <<"nothing", "to", "commit">>
Rejected == <<"rejected">>

\* Python's `needle in text`
Contains(needle, text) ==
    \E i \in 1..(Len(text) - Len(needle) + 1) :
        SubSeq(text, i, i + Len(needle) - 1) = needle

\* Python's str.lower()
LowerWord(w) ==
    CASE w = "REJECTED" -> "rejected"
      [] w = "Rejected" -> "rejected"
      [] OTHER -> w

Lower(text) == [i \in 1..Len(text) |-> LowerWord(text[i])]

Digits == {"0", "2"}

\* Python's str.isdigit()
IsDigit(text) == Len(text) = 1 /\ text[1] \in Digits

\* Python's int()
ToInt(text) == IF text[1] = "0" THEN 0 ELSE 2

Result(c, out, err) == [code |-> c, stdout |-> out, stderr |-> err]

\* Python's str.strip(): leading and trailing whitespace tokens go
RECURSIVE Strip(_)
Strip(text) ==
    IF text = <<>> THEN <<>>
    ELSE IF Head(text) = "\n" THEN Strip(Tail(text))
    ELSE IF text[Len(text)] = "\n" THEN Strip(SubSeq(text, 1, Len(text) - 1))
    ELSE text

\* ------------------------------------------------- the external collaborators
\* What the invoked tool itself may answer (exit code, raw stdout, raw stderr).
ToolOutcomes(op) ==
    CASE op = "gh_version" -> {Result(0, <<"gh", "version">>, NoText),
                               Result(127, NoText, <<"not", "found">>)}
      [] op = "gh_auth" -> {Result(0, <<"Logged", "in">>, NoText),
                            Result(1, NoText, <<"not", "logged", "in">>)}
      [] op = "status" -> {Result(0, NoText, NoText),
                           Result(0, <<"\n">>, NoText),
                           Result(0, <<"M", "file", "\n">>, NoText),
                           Result(128, NoText, <<"fatal">>)}
      [] op = "add" -> {Result(0, NoText, NoText),
                        Result(128, NoText, <<"fatal">>)}
      [] op = "commit" -> {Result(0, <<"1", "file", "changed">>, NoText),
                           Result(1, <<"On", "branch", "nothing", "to", "commit">>, NoText),
                           Result(1, NoText, <<"nothing", "to", "commit", "\n">>),
                           Result(1, <<"nothing", "added", "to", "commit">>, NoText),
                           Result(128, NoText, <<"fatal">>)}
      [] op = "fetch" -> {Result(0, NoText, NoText),
                          Result(128, NoText, <<"fatal">>)}
      [] op = "rev_list" -> {Result(0, <<"0", "\n">>, NoText),
                             Result(0, <<"2", "\n">>, NoText),
                             Result(0, NoText, NoText),
                             Result(128, NoText, <<"fatal", "no", "upstream">>)}
      [] op = "pull" -> {Result(0, NoText, NoText),
                         Result(1, NoText, <<"CONFLICT">>)}
      [] op = "push" -> {Result(0, NoText, NoText),
                         Result(1, NoText, <<"!", "Rejected", "fetch", "first">>),
                         Result(128, NoText, <<"fatal">>)}
      [] op = "workflow_run" -> {Result(0, NoText, NoText),
                                 Result(1, NoText, <<"HTTP", "422">>)}
      [] op = "watch_list" -> {Result(0, <<"completed", "success">>, NoText),
                               Result(0, NoText, NoText),
                               Result(1, NoText, <<"HTTP", "502">>)}
      [] OTHER -> {Result(0, NoText, NoText)}

\* Exit codes of a child whose output is streamed (gh run watch, gh run view,
\* git submodule update).
LiveCodes == {0, 1, 2}

\* `gh run list ... --json f1,f2,...` printing `runs` (at most the first one,
\* -L 1) with the fields asked for.
RenderRun(run, fields) ==
    <<"[", "{">> \o
    (IF "databaseId" \in fields THEN <<"databaseId", run.id>> ELSE <<>>) \o
    (IF "status" \in fields THEN <<"status", run.status>> ELSE <<>>) \o
    (IF "displayTitle" \in fields THEN <<"displayTitle", "build">> ELSE <<>>) \o
    (IF "conclusion" \in fields THEN <<"conclusion", run.conclusion>> ELSE <<>>) \o
    (IF "createdAt" \in fields THEN <<"createdAt", run.createdAt>> ELSE <<>>) \o
    <<"}", "]", "\n">>

RenderRuns(runs, fields) ==
    IF runs = <<>> THEN <<"[", "]", "\n">> ELSE RenderRun(runs[1], fields)

\* What a run-list query with a JSON projection may answer: the listing, a
\* failure of the query, nothing, or text that is not the listing.
RunListOutcomes(runs, fields) ==
    {Result(0, RenderRuns(runs, fields), NoText),
     Result(1, NoText, <<"HTTP", "502">>),
     Result(0, NoText, NoText),
     Result(0, <<"<html>", "Bad", "Gateway">>, NoText),
     Result(0, <<"null">>, NoText),
     Result(0, <<"{", "message", "rate", "}">>, NoText),
     Result(0, <<"[", "{", "}", "]">>, NoText)}

\* ------------------------------------------------------------ Process Runner
\* run_cmd: the CommandResults one call may return; `real` tells whether
\* subprocess.run was reached, `took` how long the call blocked the controller
\* (a call that completes is counted as instantaneous, one that times out
\* takes the whole timeout).
run_cmd(raw, cwdOk, timeout, dry) ==
    IF dry
    THEN {[code |-> 0, stdout |-> DryText, stderr |-> NoText, real |-> FALSE, took |-> 0]}
    ELSE IF ~cwdOk
    THEN {[code |-> -1, stdout |-> NoText, stderr |-> SpawnErrorText, real |-> TRUE, took |-> 0]}
    ELSE {[code |-> r.code, stdout |-> Strip(r.stdout), stderr |-> Strip(r.stderr),
           real |-> TRUE, took |-> 0] : r \in raw}
         \cup {[code |-> -1, stdout |-> NoText, stderr |-> TimeoutText,
                real |-> TRUE, took |-> timeout]}

\* (mutant) run_cmd_live without the DRY_RUN test
run_cmd_live_NoDryRun(codes, cwdOk, dry) ==
    IF ~cwdOk
    THEN {[code |-> -1, real |-> TRUE]}
    ELSE {[code |-> c, real |-> TRUE] : c \in codes}

\* run_cmd_live: the exit code, no capture, no timeout argument.
run_cmd_live(codes, cwdOk, dry) ==
    IF dry
    THEN {[code |-> 0, real |-> FALSE]}
    ELSE IF ~cwdOk
    THEN {[code |-> -1, real |-> TRUE]}
    ELSE {[code |-> c, real |-> TRUE] : c \in codes}

\* subprocess.run(cmd, cwd=cwd) is given no timeout: when the child is started
\* and never exits, run_cmd_live does not return.
run_cmd_live_blocks(cwdOk, dry) == ~dry /\ cwdOk

\* ----------------------------------------------------------------- json.loads
IsObjectBody(s) == Len(s) % 2 = 0

Obj(s) ==
    [k \in {s[2 * i - 1] : i \in 1..(Len(s) \div 2)} |->
        s[2 * (CHOOSE i \in 1..(Len(s) \div 2) : s[2 * i - 1] = k)]]

JsonError == [err |-> TRUE, kind |-> "none", items |-> <<>>]
JsonValue(kind, items) == [err |-> FALSE, kind |-> kind, items |-> items]

JsonLoads(s) ==
    IF s = <<"null">> THEN JsonValue("null", <<>>)
    ELSE IF s = <<"[", "]">> THEN JsonValue("list", <<>>)
    ELSE IF /\ Len(s) >= 4
            /\ s[1] = "[" /\ s[2] = "{" /\ s[Len(s) - 1] = "}" /\ s[Len(s)] = "]"
            /\ IsObjectBody(SubSeq(s, 3, Len(s) - 2))
    THEN JsonValue("list", <<Obj(SubSeq(s, 3, Len(s) - 2))>>)
    ELSE IF /\ Len(s) >= 2
            /\ s[1] = "{" /\ s[Len(s)] = "}"
            /\ IsObjectBody(SubSeq(s, 2, Len(s) - 1))
    THEN JsonValue("dict", <<Obj(SubSeq(s, 2, Len(s) - 1))>>)
    ELSE JsonError

\* Python truthiness of a parsed value
Truthy(v) ==
    \/ v.kind = "list" /\ v.items # <<>>
    \/ v.kind = "dict" /\ DOMAIN v.items[1] # {}

\* v[0][key] raises (KeyError on a dict without key 0, KeyError on a missing field)
Raises(v, key) == v.kind # "list" \/ key \notin DOMAIN v.items[1]


\* ------------------------------------------------------------------- state
NoArgs == [command |-> "none", dry_run |-> FALSE, follow |-> FALSE, tag |-> ""]

\* RS_CLIENT_DIR is the directory the script itself was loaded from: it exists.
rsDirExists == TRUE

\* auto_pull is never passed by cmd_push: the default applies
auto_pull == TRUE

CwdOk == IF Repos[repo] = HBB_COMMON THEN hbbDirExists ELSE rsDirExists

Call(cwd, op, arg, r) ==
    [cwd |-> cwd, op |-> op, arg |-> arg, real |-> r.real, ok |-> (r.code = 0)]

NoCall == [cwd |-> "", op |-> "none", code |-> 0, stdout |-> NoText, stderr |-> NoText]

\* a call of run_cmd
Log(cwd, op, arg, r) ==
    /\ calls' = Append(calls, Call(cwd, op, arg, r))
    /\ last' = [cwd |-> cwd, op |-> op, code |-> r.code,
                stdout |-> r.stdout, stderr |-> r.stderr]

\* a call of run_cmd_live: nothing is captured
LogLive(cwd, op, arg, r) ==
    /\ calls' = Append(calls, Call(cwd, op, arg, r))
    /\ last' = [cwd |-> cwd, op |-> op, code |-> r.code,
                stdout |-> NoText, stderr |-> NoText]

NoSync == [i \in 1..2 |-> "none"]

\* databaseId of the n-th run the remote held before the trigger
OldId(n) == CASE n = 1 -> "101" [] n = 2 -> "102" [] OTHER -> "103"

OldRun(n, st) == [id |-> OldId(n), status |-> st, conclusion |-> "", createdAt |-> "t0"]
NewRun == [id |-> "200", status |-> "queued", conclusion |-> "", createdAt |-> "t1"]
FailedRun == [id |-> "100", status |-> "completed", conclusion |-> "failure",
              createdAt |-> "t0"]

Init ==
    /\ DRY_RUN = FALSE
    /\ args = NoArgs
    /\ pc = "idle"
    /\ inPush = FALSE
    /\ repo = 1
    /\ calls = <<>>
    /\ last = NoCall
    /\ clean = {}
    /\ synced = NoSync
    /\ hint = FALSE
    /\ hbbDirExists \in BOOLEAN
    /\ triggered = FALSE
    /\ baseline = {}
    /\ remoteRuns = <<>>
    /\ elapsed = 0
    /\ polls = 0
    /\ sleeps = 0
    /\ waited = "no"
    /\ run_id = "None"
    /\ crashed = FALSE
    /\ ret = <<>>

envVars == <<hbbDirExists>>
syncVars == <<repo, clean, synced, hint>>
waitVars == <<triggered, baseline, remoteRuns, elapsed, polls, sleeps, waited, run_id>>

\* A command function is entered: from main(), or again by a caller that got
\* the previous command's return value.
Enter(a) ==
    /\ pc \in {"idle", "done"}
    /\ args' = a
    /\ pc' = "gh_version"
    /\ inPush' = (a.command = "push")
    /\ repo' = 1
    /\ calls' = <<>>
    /\ last' = NoCall
    /\ clean' = {}
    /\ synced' = NoSync
    /\ hint' = FALSE
    /\ triggered' = FALSE
    /\ baseline' = {}
    /\ remoteRuns' = <<>>
    /\ elapsed' = 0
    /\ polls' = 0
    /\ sleeps' = 0
    /\ waited' = "no"
    /\ run_id' = "None"
    /\ crashed' = FALSE
    /\ ret' = <<>>
    /\ UNCHANGED envVars

\* return <code>
Return(code) == pc' = "done" /\ ret' = <<code>> /\ crashed' = crashed

\* sys.exit(1)
SysExit == pc' = "exited" /\ ret' = <<1>> /\ crashed' = crashed

\* an exception nobody catches: traceback, exit status 1
Crash == pc' = "exited" /\ ret' = <<1>> /\ crashed' = TRUE

Goto(next) == pc' = next /\ ret' = ret /\ crashed' = crashed

\* the controller stays inside a call that does not return
Block == pc' = "blocked" /\ ret' = ret /\ crashed' = crashed

\* ---------------------------------------------------------------- commands
cmd_push ==
    \E dry \in BOOLEAN :
        /\ Enter([command |-> "push", dry_run |-> dry, follow |-> FALSE, tag |-> ""])
        /\ DRY_RUN' = dry

cmd_build ==
    \E dry \in BOOLEAN, t \in {"", "v1.0.0"} :
        /\ Enter([command |-> "build", dry_run |-> dry, follow |-> FALSE, tag |-> t])
        /\ DRY_RUN' = dry

cmd_watch ==
    \E f \in BOOLEAN :
        /\ Enter([command |-> "watch", dry_run |-> FALSE, follow |-> f, tag |-> ""])
        /\ UNCHANGED DRY_RUN

cmd_fail ==
    /\ Enter([command |-> "fail", dry_run |-> FALSE, follow |-> FALSE, tag |-> ""])
    /\ UNCHANGED DRY_RUN

\* ------------------------------------------------------- pre-flight checks
check_gh_version ==
    /\ pc = "gh_version"
    /\ \E r \in run_cmd(ToolOutcomes("gh_version"), TRUE, DEFAULT_CMD_TIMEOUT, DRY_RUN) :
        /\ Log("", "gh_version", "", r)
        /\ IF r.code # 0 THEN SysExit ELSE Goto("gh_auth")
    /\ UNCHANGED <<DRY_RUN, args, inPush, envVars, syncVars, waitVars>>

\* (mutant) check_gh_installed without the sys.exit(1) after `gh auth status`
check_gh_auth_IgnoreFailure ==
    /\ pc = "gh_auth"
    /\ \E r \in run_cmd(ToolOutcomes("gh_auth"), TRUE, DEFAULT_CMD_TIMEOUT, DRY_RUN) :
        /\ Log("", "gh_auth", "", r)
        /\ IF args.command = "watch" THEN Goto("watch_list")
           ELSE IF args.command = "fail" THEN Goto("fail_list")
           ELSE Goto("repo_exists")
    /\ UNCHANGED <<DRY_RUN, args, inPush, envVars, syncVars, waitVars>>

check_gh_auth ==
    /\ pc = "gh_auth"
    /\ \E r \in run_cmd(ToolOutcomes("gh_auth"), TRUE, DEFAULT_CMD_TIMEOUT, DRY_RUN) :
        /\ Log("", "gh_auth", "", r)
        /\ IF r.code # 0 THEN SysExit
           ELSE IF args.command = "watch" THEN Goto("watch_list")
           ELSE IF args.command = "fail" THEN Goto("fail_list")
           ELSE Goto("repo_exists")
    /\ UNCHANGED <<DRY_RUN, args, inPush, envVars, syncVars, waitVars>>

\* After check_repo_exists: cmd_build goes on to call cmd_push (which runs the
\* pre-flight checks again), cmd_push goes on to the submodule.
AfterPreflight ==
    IF inPush
    THEN Goto("status") /\ inPush' = inPush
    ELSE Goto("gh_version") /\ inPush' = TRUE

check_repo_exists ==
    /\ pc = "repo_exists"
    /\ IF ~rsDirExists
       THEN SysExit /\ UNCHANGED <<calls, last, inPush, hbbDirExists>>
       ELSE IF hbbDirExists
       THEN AfterPreflight /\ UNCHANGED <<calls, last, hbbDirExists>>
       ELSE \/ \E r \in run_cmd_live(LiveCodes, rsDirExists, DRY_RUN) :
               /\ LogLive(RS_CLIENT, "submodule_init", "", r)
               /\ IF r.code # 0
                  THEN SysExit /\ UNCHANGED <<inPush, hbbDirExists>>
                  ELSE /\ AfterPreflight
                       \* a real, successful init creates the directory
                       /\ hbbDirExists' = r.real
            \/ /\ run_cmd_live_blocks(rsDirExists, DRY_RUN)
               /\ Block
               /\ UNCHANGED <<calls, last, inPush, hbbDirExists>>
    /\ UNCHANGED <<DRY_RUN, args, syncVars, waitVars>>


\* (mutant) cmd_push without the `if not success: return 1` after the submodule
SyncReturn_IgnoreFailure(ok) ==
    /\ synced' = [synced EXCEPT ![repo] = IF ok THEN "ok" ELSE "fail"]
    /\ IF repo < Len(Repos) THEN Goto("status") /\ repo' = repo + 1
       ELSE IF ~ok THEN Return(1) /\ repo' = repo
       ELSE IF args.command = "build" THEN Goto("trigger") /\ repo' = repo
       ELSE Return(0) /\ repo' = repo

\* (mutant) cmd_push returning after the submodule, the superproject left out
SyncReturn_SubmoduleOnly(ok) ==
    /\ synced' = [synced EXCEPT ![repo] = IF ok THEN "ok" ELSE "fail"]
    /\ repo' = repo
    /\ IF ~ok THEN Return(1)
       ELSE IF args.command = "build" THEN Goto("trigger")
       ELSE Return(0)

\* (mutant) cmd_build without the `if ret != 0: return 1` after cmd_push
SyncReturn_TriggerAnyway(ok) ==
    /\ synced' = [synced EXCEPT ![repo] = IF ok THEN "ok" ELSE "fail"]
    /\ IF ~ok /\ args.command # "build" THEN Return(1) /\ repo' = repo
       ELSE IF ~ok THEN Goto("trigger") /\ repo' = repo
       ELSE IF repo < Len(Repos) THEN Goto("status") /\ repo' = repo + 1
       ELSE IF args.command = "build" THEN Goto("trigger") /\ repo' = repo
       ELSE Return(0) /\ repo' = repo

\* -------------------------------------------------- Multi-Repository Coordinator
\* cmd_push's two call sites of git_commit_push, and cmd_build's `if ret != 0`:
\* what happens when the sync of Repos[repo] returns `ok`.
SyncReturn(ok) ==
    /\ synced' = [synced EXCEPT ![repo] = IF ok THEN "ok" ELSE "fail"]
    /\ IF ~ok THEN Return(1) /\ repo' = repo
       ELSE IF repo < Len(Repos) THEN Goto("status") /\ repo' = repo + 1
       ELSE IF args.command = "build" THEN Goto("trigger") /\ repo' = repo
       ELSE Return(0) /\ repo' = repo

\* the sync goes on to its next call
SyncGoto(next) == Goto(next) /\ UNCHANGED <<repo, synced>>

RepoIndex(name) == CHOOSE i \in 1..Len(Repos) : Repos[i] = name
SyncedOf(name) == synced[RepoIndex(name)]

\* ------------------------------------------------------ Repository Sync Engine
\* (mutant) git_has_changes without the test of the output
git_has_changes_CodeOnly(r) == r.code = 0

\* git_has_changes applied to the result of `git status --porcelain`
git_has_changes(r) == r.code = 0 /\ Len(r.stdout) > 0

\* the status call, and git_commit_push's early return
git_status ==
    /\ pc = "status"
    /\ \E r \in run_cmd(ToolOutcomes("status"), CwdOk, DEFAULT_CMD_TIMEOUT, DRY_RUN) :
        /\ Log(Repos[repo], "status", "", r)
        /\ clean' = IF r.code = 0 /\ r.stdout = NoText
                    THEN clean \cup {Repos[repo]} ELSE clean
        /\ IF git_has_changes(r)
           THEN SyncGoto("add")
           ELSE SyncReturn(TRUE)
    /\ UNCHANGED <<DRY_RUN, args, inPush, hint, envVars, waitVars>>

\* (mutant) the marker looked for in stderr alone
nothing_to_commit_StderrOnly(r) == Contains(NothingToCommit, r.stderr)

\* the no-op marker test on a failed commit
nothing_to_commit(r) ==
    Contains(NothingToCommit, r.stderr) \/ Contains(NothingToCommit, r.stdout)

\* (mutant) git_commit_push without the `if code != 0: return False` after add
git_add_IgnoreFailure ==
    /\ pc = "add"
    /\ \E r \in run_cmd(ToolOutcomes("add"), CwdOk, DEFAULT_CMD_TIMEOUT, DRY_RUN) :
        /\ Log(Repos[repo], "add", "", r)
        /\ SyncGoto("commit")
    /\ UNCHANGED <<DRY_RUN, args, inPush, clean, hint, envVars, waitVars>>

git_add ==
    /\ pc = "add"
    /\ \E r \in run_cmd(ToolOutcomes("add"), CwdOk, DEFAULT_CMD_TIMEOUT, DRY_RUN) :
        /\ Log(Repos[repo], "add", "", r)
        /\ IF r.code # 0 THEN SyncReturn(FALSE) ELSE SyncGoto("commit")
    /\ UNCHANGED <<DRY_RUN, args, inPush, clean, hint, envVars, waitVars>>

git_commit ==
    /\ pc = "commit"
    /\ \E r \in run_cmd(ToolOutcomes("commit"), CwdOk, DEFAULT_CMD_TIMEOUT, DRY_RUN) :
        /\ Log(Repos[repo], "commit", "", r)
        /\ IF r.code # 0
           THEN IF nothing_to_commit(r)
                THEN SyncReturn(TRUE)
                ELSE SyncReturn(FALSE)
           ELSE IF auto_pull THEN SyncGoto("fetch") ELSE SyncGoto("push")
    /\ UNCHANGED <<DRY_RUN, args, inPush, clean, hint, envVars, waitVars>>

\* git_check_remote_ahead, first call: the result of the fetch is not looked at
git_fetch ==
    /\ pc = "fetch"
    /\ \E r \in run_cmd(ToolOutcomes("fetch"), CwdOk, 60, DRY_RUN) :
        /\ Log(Repos[repo], "fetch", "", r)
        /\ SyncGoto("rev_list")
    /\ UNCHANGED <<DRY_RUN, args, inPush, clean, hint, envVars, waitVars>>

\* (mutant) git_check_remote_ahead without the `> 0`
remote_ahead_AnyCount(r) == r.code = 0 /\ IsDigit(r.stdout)

\* git_check_remote_ahead's reading of the rev-list result
remote_ahead(r) == r.code = 0 /\ IsDigit(r.stdout) /\ ToInt(r.stdout) > 0

\* git_check_remote_ahead, second call
git_rev_list ==
    /\ pc = "rev_list"
    /\ \E r \in run_cmd(ToolOutcomes("rev_list"), CwdOk, DEFAULT_CMD_TIMEOUT, DRY_RUN) :
        /\ Log(Repos[repo], "rev_list", "", r)
        /\ IF remote_ahead(r)
           THEN SyncGoto("pull")
           ELSE SyncGoto("push")
    /\ UNCHANGED <<DRY_RUN, args, inPush, clean, hint, envVars, waitVars>>

git_pull ==
    /\ pc = "pull"
    /\ \E r \in run_cmd(ToolOutcomes("pull"), CwdOk, 120, DRY_RUN) :
        /\ Log(Repos[repo], "pull", "", r)
        /\ IF r.code # 0 THEN SyncReturn(FALSE) ELSE SyncGoto("push")
    /\ UNCHANGED <<DRY_RUN, args, inPush, clean, hint, envVars, waitVars>>

\* (mutant) a failed push followed by a rebase-pull and another push
git_push_RetryAfterPull ==
    /\ pc = "push"
    /\ \E r \in run_cmd(ToolOutcomes("push"), CwdOk, GIT_PUSH_TIMEOUT, DRY_RUN) :
        /\ Log(Repos[repo], "push", "", r)
        /\ hint' = (hint \/ (r.code # 0 /\ Contains(Rejected, Lower(r.stderr))))
        /\ IF r.code # 0 THEN SyncGoto("pull") ELSE SyncReturn(TRUE)
    /\ UNCHANGED <<DRY_RUN, args, inPush, clean, envVars, waitVars>>

git_push ==
    /\ pc = "push"
    /\ \E r \in run_cmd(ToolOutcomes("push"), CwdOk, GIT_PUSH_TIMEOUT, DRY_RUN) :
        /\ Log(Repos[repo], "push", "", r)
        /\ hint' = (hint \/ (r.code # 0 /\ Contains(Rejected, Lower(r.stderr))))
        /\ IF r.code # 0 THEN SyncReturn(FALSE) ELSE SyncReturn(TRUE)
    /\ UNCHANGED <<DRY_RUN, args, inPush, clean, envVars, waitVars>>

\* ------------------------------------------- Build Trigger & Confirmation
\* What the remote may hold when the trigger is fired: no run of the workflow,
\* or an earlier run in some state.
RemoteAtTrigger ==
    {<<>>} \cup
    {<<OldRun(n, st)>> \o [i \in 1..(n - 1) |-> OldRun(n - i, "completed")] :
        n \in 1..MaxOldRuns, st \in {"in_progress", "completed"}}

RunIds(runs) == {runs[i].id : i \in 1..Len(runs)}

\* (mutant) cmd_build without the `if not DRY_RUN`
confirm_start_Always == TRUE

\* cmd_build waits for the run to start unless this is a dry run
confirm_start == ~DRY_RUN

\* cmd_build steps 2 and 3: the tag, the trigger call, and whether to wait
trigger_workflow ==
    /\ pc = "trigger"
    /\ LET t == IF args.tag # "" THEN args.tag ELSE "timestamp" IN
       \E r \in run_cmd(ToolOutcomes("workflow_run"), rsDirExists, DEFAULT_CMD_TIMEOUT, DRY_RUN),
          before \in RemoteAtTrigger :
        /\ Log(RS_CLIENT, "workflow_run", t, r)
        /\ triggered' = (r.code = 0)
        /\ remoteRuns' = before
        /\ baseline' = RunIds(before)
        /\ IF r.code # 0 THEN Return(1)
           ELSE IF confirm_start THEN Goto("poll")
           ELSE Return(0)
    /\ UNCHANGED <<DRY_RUN, args, inPush, envVars, syncVars,
                   elapsed, polls, sleeps, waited, run_id>>

\* The remote between two looks at it: the run this trigger asked for may
\* have been created.
RemoteNext(runs) ==
    {runs} \cup (IF NewRun.id \in RunIds(runs) THEN {} ELSE {<<NewRun>> \o runs})

PollFields == {"databaseId", "status", "createdAt"}

\* The body of the try block for one query result:
\* "raise" (an exception other than JSONDecodeError), "found" or "pass".
PollLook(r) ==
    IF r.code = 0 /\ r.stdout # NoText
    THEN LET v == JsonLoads(r.stdout) IN
         IF v.err THEN [kind |-> "pass", id |-> "None"]
         ELSE IF ~Truthy(v) THEN [kind |-> "pass", id |-> "None"]
         ELSE IF Raises(v, "status") THEN [kind |-> "raise", id |-> "None"]
         ELSE IF v.items[1]["status"] \in {"queued", "in_progress"}
         THEN IF Raises(v, "databaseId") THEN [kind |-> "raise", id |-> "None"]
              ELSE [kind |-> "found", id |-> v.items[1]["databaseId"]]
         ELSE [kind |-> "pass", id |-> "None"]
    ELSE [kind |-> "pass", id |-> "None"]

\* one pass of the while loop up to the sleep
poll_runs ==
    /\ pc = "poll"
    /\ elapsed < MAX_WAIT
    /\ \E now \in RemoteNext(remoteRuns) :
       \E r \in run_cmd(RunListOutcomes(now, PollFields), rsDirExists,
                        DEFAULT_CMD_TIMEOUT, DRY_RUN) :
        LET look == PollLook(r) IN
        /\ remoteRuns' = now
        /\ polls' = polls + 1
        /\ elapsed' = elapsed + r.took
        /\ IF look.kind = "raise" THEN Crash /\ UNCHANGED <<waited, run_id>>
           ELSE IF look.kind = "found"
           THEN Return(0) /\ waited' = "id" /\ run_id' = look.id
           ELSE Goto("sleep") /\ UNCHANGED <<waited, run_id>>
    /\ UNCHANGED <<DRY_RUN, args, inPush, calls, last, envVars, syncVars,
                   triggered, baseline, sleeps>>

poll_sleep ==
    /\ pc = "sleep"
    /\ sleeps' = sleeps + 1
    /\ elapsed' = elapsed + POLL_INTERVAL
    /\ Goto("poll")
    /\ UNCHANGED <<DRY_RUN, args, inPush, calls, last, envVars, syncVars,
                   triggered, baseline, remoteRuns, polls, waited, run_id>>

\* (mutant) cmd_build treating a missing run id as a failure
poll_timeout_Fatal ==
    /\ pc = "poll"
    /\ ~(elapsed < MAX_WAIT)
    /\ waited' = "none"
    /\ run_id' = "None"
    /\ Return(1)
    /\ UNCHANGED <<DRY_RUN, args, inPush, calls, last, envVars, syncVars,
                   triggered, baseline, remoteRuns, elapsed, polls, sleeps>>

\* the while condition fails: return None, and cmd_build returns 0
poll_timeout ==
    /\ pc = "poll"
    /\ ~(elapsed < MAX_WAIT)
    /\ waited' = "none"
    /\ run_id' = "None"
    /\ Return(0)
    /\ UNCHANGED <<DRY_RUN, args, inPush, calls, last, envVars, syncVars,
                   triggered, baseline, remoteRuns, elapsed, polls, sleeps>>

\* ------------------------------------------------ Status & Failure Reporter
watch_list ==
    /\ pc = "watch_list"
    /\ \E r \in run_cmd(ToolOutcomes("watch_list"), rsDirExists, DEFAULT_CMD_TIMEOUT, DRY_RUN) :
        /\ Log(RS_CLIENT, "watch_list", "", r)
        /\ IF r.code # 0 THEN Return(1)
           ELSE IF r.stdout = NoText THEN Return(0)
           ELSE IF args.follow THEN Goto("watch_follow")
           ELSE Return(0)
    /\ UNCHANGED <<DRY_RUN, args, inPush, envVars, syncVars, waitVars>>

watch_follow ==
    /\ pc = "watch_follow"
    /\ \/ \E r \in run_cmd_live(LiveCodes, rsDirExists, DRY_RUN) :
            /\ LogLive(RS_CLIENT, "run_watch", "", r)
            /\ Return(r.code)
       \/ /\ run_cmd_live_blocks(rsDirExists, DRY_RUN)
          /\ Block
          /\ UNCHANGED <<calls, last>>
    /\ UNCHANGED <<DRY_RUN, args, inPush, envVars, syncVars, waitVars>>

FailFields == {"databaseId", "displayTitle", "conclusion", "createdAt"}

\* (mutant) cmd_fail without the `if not runs` return
FailLook_NoEmptyCheck(r) ==
    IF r.code # 0 THEN [kind |-> "error", id |-> "None"]
    ELSE LET v == JsonLoads(r.stdout) IN
         IF v.err THEN [kind |-> "error", id |-> "None"]
         ELSE IF ~Truthy(v) THEN [kind |-> "view", id |-> "None"]
         ELSE IF \/ Raises(v, "databaseId")
                 \/ Raises(v, "displayTitle")
                 \/ Raises(v, "createdAt")
         THEN [kind |-> "raise", id |-> "None"]
         ELSE [kind |-> "view", id |-> v.items[1]["databaseId"]]

\* cmd_fail from the list query to the choice of the run:
\* "error" (return 1), "none" (return 0), "raise", or "view" with the run id
FailLook(r) ==
    IF r.code # 0 THEN [kind |-> "error", id |-> "None"]
    ELSE LET v == JsonLoads(r.stdout) IN
         IF v.err THEN [kind |-> "error", id |-> "None"]
         ELSE IF ~Truthy(v) THEN [kind |-> "none", id |-> "None"]
         ELSE IF \/ Raises(v, "databaseId")
                 \/ Raises(v, "displayTitle")
                 \/ Raises(v, "createdAt")
         THEN [kind |-> "raise", id |-> "None"]
         ELSE [kind |-> "view", id |-> v.items[1]["databaseId"]]

fail_list ==
    /\ pc = "fail_list"
    /\ \E failing \in {<<>>, <<FailedRun>>} :
       \E r \in run_cmd(RunListOutcomes(failing, FailFields), rsDirExists,
                        DEFAULT_CMD_TIMEOUT, DRY_RUN) :
        LET look == FailLook(r) IN
        /\ Log(RS_CLIENT, "fail_list", "", r)
        /\ run_id' = look.id
        /\ IF look.kind = "error" THEN Return(1)
           ELSE IF look.kind = "none" THEN Return(0)
           ELSE IF look.kind = "raise" THEN Crash
           ELSE Goto("fail_view")
    /\ UNCHANGED <<DRY_RUN, args, inPush, envVars, syncVars,
                   triggered, baseline, remoteRuns, elapsed, polls, sleeps, waited>>

fail_view ==
    /\ pc = "fail_view"
    /\ \/ \E r \in run_cmd_live(LiveCodes, rsDirExists, DRY_RUN) :
            /\ LogLive(RS_CLIENT, "run_view", run_id, r)
            /\ Return(r.code)
       \/ /\ run_cmd_live_blocks(rsDirExists, DRY_RUN)
          /\ Block
          /\ UNCHANGED <<calls, last>>
    /\ UNCHANGED <<DRY_RUN, args, inPush, envVars, syncVars, waitVars>>

\* ------------------------------------------------------------ specification
Next ==
    \/ cmd_push
    \/ cmd_build
    \/ cmd_watch
    \/ cmd_fail
    \/ check_gh_version
    \/ check_gh_auth
    \/ check_repo_exists
    \/ git_status
    \/ git_add
    \/ git_commit
    \/ git_fetch
    \/ git_rev_list
    \/ git_pull
    \/ git_push
    \/ trigger_workflow
    \/ poll_runs
    \/ poll_sleep
    \/ poll_timeout
    \/ watch_list
    \/ watch_follow
    \/ fail_list
    \/ fail_view

Spec == Init /\ [][Next]_vars


\* ------------------------------------------------------------------ claims
SyncOps == {"status", "add", "commit", "fetch", "rev_list", "pull", "push"}
MutatingOps == {"add", "commit", "fetch", "pull", "push"}

\* positions in `calls` of the sync calls issued in repository `name`
SyncCalls(name) ==
    {i \in 1..Len(calls) : calls[i].cwd = name /\ calls[i].op \in SyncOps}

Issued(name, ops) ==
    \E i \in 1..Len(calls) : calls[i].cwd = name /\ calls[i].op \in ops

\* C1: when the sync of the submodule hbb_common has returned failure, no sync
\* call (status, add, commit, fetch, rev-list, pull, push) has been issued in
\* the superproject rs-client, and the command has returned exit code 1.
C1_AbortOnSubmoduleFailure ==
    SyncedOf(HBB_COMMON) = "fail" =>
        /\ SyncCalls(RS_CLIENT) = {}
        /\ SyncedOf(RS_CLIENT) = "none"
        /\ pc = "done"
        /\ ret = <<1>>

\* the submodule's push was rejected, in build
C1_Witness ==
    /\ args.command = "build"
    /\ SyncedOf(HBB_COMMON) = "fail"
    /\ last.cwd = HBB_COMMON /\ last.op = "push" /\ last.code # 0
    /\ hint
    /\ ret = <<1>>

\* C2: every sync call issued in the submodule precedes every sync call issued
\* in the superproject, and no sync call (so no push) is issued in the
\* superproject before the submodule's sync has returned success.
C2_SubmoduleBeforeSuperproject ==
    /\ \A i \in SyncCalls(HBB_COMMON), j \in SyncCalls(RS_CLIENT) : i < j
    /\ SyncCalls(RS_CLIENT) # {} => SyncedOf(HBB_COMMON) = "ok"

\* both repositories were committed and pushed
C2_Witness ==
    /\ Issued(HBB_COMMON, {"push"})
    /\ Issued(RS_CLIENT, {"push"})
    /\ ~DRY_RUN
    /\ SyncedOf(RS_CLIENT) = "ok"

\* C3: a repository whose status query exited 0 with empty output has its sync
\* return success with no add, commit, fetch, pull or push issued in it; and
\* when both are clean, push returns 0 with none of those calls issued at all.
C3_CleanIsNoOp ==
    /\ \A i \in 1..Len(Repos) :
        Repos[i] \in clean =>
            /\ synced[i] = "ok"
            /\ ~Issued(Repos[i], MutatingOps)
    /\ (args.command = "push" /\ clean = {HBB_COMMON, RS_CLIENT}) =>
            /\ pc = "done"
            /\ ret = <<0>>
            /\ \A i \in 1..Len(calls) : calls[i].op \notin MutatingOps

\* push with both working trees clean
C3_Witness ==
    /\ args.command = "push"
    /\ clean = {HBB_COMMON, RS_CLIENT}
    /\ ret = <<0>>

\* the controller has gone on from the sync of repository `name`, which succeeded
WentOn(name) ==
    IF RepoIndex(name) < Len(Repos)
    THEN \/ repo = RepoIndex(name) + 1 /\ pc = "status"
    ELSE IF args.command = "build" THEN pc = "trigger"
    ELSE pc = "done" /\ ret = <<0>>

\* C4: a commit that exits non-zero with "nothing to commit" in its stdout or
\* stderr makes the sync return success, with no fetch, pull or push issued in
\* that repository, and the coordinator goes on; a commit that exits non-zero
\* without the marker makes the sync return failure and the command return 1.
\* In no case is a fetch, pull or push issued in a repository after a commit
\* there that exited non-zero.
C4_NothingToCommitIsNoOp ==
    /\ (last.op = "commit" /\ last.code # 0) =>
        IF \/ Contains(NothingToCommit, last.stdout)
           \/ Contains(NothingToCommit, last.stderr)
        THEN /\ SyncedOf(last.cwd) = "ok"
             /\ ~Issued(last.cwd, {"fetch", "rev_list", "pull", "push"})
             /\ WentOn(last.cwd)
        ELSE /\ SyncedOf(last.cwd) = "fail"
             /\ pc = "done"
             /\ ret = <<1>>
    /\ \A i \in 1..Len(calls) :
        (calls[i].op = "commit" /\ ~calls[i].ok) =>
            \A j \in (i + 1)..Len(calls) :
                calls[j].cwd = calls[i].cwd =>
                    calls[j].op \notin {"fetch", "rev_list", "pull", "push"}

\* the submodule's commit said "nothing to commit" on stdout, and the
\* coordinator is at the superproject
C4_Witness ==
    /\ last.op = "commit" /\ last.cwd = HBB_COMMON /\ last.code # 0
    /\ Contains(NothingToCommit, last.stdout)
    /\ repo = 2 /\ pc = "status"

\* C5: while DRY_RUN is set, whatever the command, no call handed to run_cmd
\* or run_cmd_live reaches subprocess.run: every call returns the synthetic
\* success, and no run-list query of the polling loop is issued.
C5_DryRunExecutesNothing ==
    DRY_RUN =>
        /\ \A i \in 1..Len(calls) : ~calls[i].real /\ calls[i].ok
        /\ last.code = 0 /\ last.stderr = NoText
        /\ last.op # "none" => last.stdout \in {DryText, NoText}
        /\ polls = 0

\* watch --follow with the flag left set by an earlier dry run: the list query
\* and the live attach were both simulated
C5_Witness ==
    /\ DRY_RUN
    /\ args.command = "watch"
    /\ last.op = "run_watch"
    /\ Len(calls) = 4
    /\ ret = <<0>>

\* C6: build under dry run: the trigger call is simulated, the polling loop is
\* never entered (no run-list query, no sleep), and whenever the command has
\* ended it has returned 0, after the simulated trigger call.
C6_DryBuildSkipsConfirmation ==
    (args.command = "build" /\ DRY_RUN) =>
        /\ pc \notin {"poll", "sleep", "exited"}
        /\ polls = 0 /\ sleeps = 0 /\ waited = "no"
        /\ \A i \in 1..Len(calls) : calls[i].op = "workflow_run" => ~calls[i].real
        /\ pc = "done" =>
            /\ ret = <<0>>
            /\ triggered
            /\ calls[Len(calls)].op = "workflow_run"

\* build -t v1.0.0 --dry-run has returned
C6_Witness ==
    /\ args.command = "build" /\ DRY_RUN /\ args.tag = "v1.0.0"
    /\ pc = "done"
    /\ calls[Len(calls)] =
        [cwd |-> RS_CLIENT, op |-> "workflow_run", arg |-> "v1.0.0",
         real |-> FALSE, ok |-> TRUE]

\* C7: once wait_for_workflow_start has returned, at most max_wait plus one
\* poll interval has elapsed since it was entered.
C7_WaitBoundedByBudget ==
    waited # "no" => elapsed <= MAX_WAIT + POLL_INTERVAL

\* C8: when the trigger call succeeded and the wait budget ran out with no
\* qualifying run seen, wait_for_workflow_start has returned None and build
\* has returned 0; and build never returns 1 after a successful trigger.
C8_TimeoutIsNotFatal ==
    /\ waited = "none" =>
        /\ triggered
        /\ run_id = "None"
        /\ pc = "done"
        /\ ret = <<0>>
    /\ (args.command = "build" /\ triggered /\ pc = "done") => ret = <<0>>

\* the budget ran out: fifteen queries, none of them showing a qualifying run
C8_Witness ==
    /\ waited = "none"
    /\ polls = MAX_WAIT \div POLL_INTERVAL
    /\ elapsed = MAX_WAIT
    /\ ret = <<0>>

\* C9: no answer to a run-list query of the polling loop ends the command with
\* an uncaught exception.
C9_QueryNeverCrashesWait ==
    args.command = "build" => ~crashed

\* C10: a run id returned by wait_for_workflow_start is not the id of a run
\* the remote already held when the trigger was fired.
C10_ConfirmedRunIsNew ==
    waited = "id" => run_id \notin baseline

\* the entries of the log that are trigger calls
TriggerCalls == {i \in 1..Len(calls) : calls[i].op = "workflow_run"}

\* C11: in build, the trigger call is issued only once the syncs of both
\* repositories have returned success, and after every sync call; when a sync
\* has returned failure no trigger call is issued and build has returned 1;
\* when the trigger call exits non-zero build has returned 1 and the polling
\* loop is not entered (no run-list query, no sleep).
C11_TriggerOnlyAfterPush ==
    /\ \A i \in TriggerCalls :
        /\ \A k \in 1..Len(Repos) : synced[k] = "ok"
        /\ \A j \in 1..Len(calls) : calls[j].op \in SyncOps => j < i
    /\ pc = "trigger" => \A k \in 1..Len(Repos) : synced[k] = "ok"
    /\ (args.command = "build" /\ \E k \in 1..Len(Repos) : synced[k] = "fail") =>
        /\ TriggerCalls = {}
        /\ pc = "done"
        /\ ret = <<1>>
    /\ \A i \in TriggerCalls :
        ~calls[i].ok =>
            /\ i = Len(calls)
            /\ ~triggered
            /\ pc = "done"
            /\ ret = <<1>>
            /\ polls = 0 /\ sleeps = 0 /\ waited = "no"

\* build whose trigger call exited non-zero after both repositories were pushed
C11_Witness ==
    /\ args.command = "build"
    /\ last.op = "workflow_run" /\ last.code # 0
    /\ Issued(HBB_COMMON, {"push"}) /\ Issued(RS_CLIENT, {"push"})
    /\ ret = <<1>>

\* C12: whichever command ran and whatever the external calls answered, a
\* command that has ended has returned 0 or 1.
C12_ExitCodeZeroOrOne ==
    pc \in {"done", "exited"} => ret \in {<<0>>, <<1>>}

\* C13: no external call keeps the controller waiting without bound: a child
\* that never exits makes its call return -1 once the timeout has passed, in
\* run_cmd_live as in run_cmd, so the controller is never left inside a call.
C13_EveryCallReturns ==
    pc # "blocked"

\* C14: in fail, when the list query exited 0 and printed the empty list, the
\* command has returned 0 and no run-log fetch was issued; a run-log fetch is
\* about to be issued, or was issued, only right after a list query that
\* exited 0 and printed a failing run, and for the id printed there.
C14_LogFetchOnlyForListedRun ==
    /\ (last.op = "fail_list" /\ last.code = 0 /\ last.stdout = <<"[", "]">>) =>
        /\ pc = "done"
        /\ ret = <<0>>
        /\ \A i \in 1..Len(calls) : calls[i].op # "run_view"
    /\ pc = "fail_view" =>
        /\ last.op = "fail_list" /\ last.code = 0
        /\ Len(last.stdout) >= 4
        /\ last.stdout[3] = "databaseId"
        /\ run_id = last.stdout[4]
    /\ \A i \in 1..Len(calls) :
        calls[i].op = "run_view" =>
            /\ i = Len(calls) /\ i >= 2
            /\ calls[i - 1].op = "fail_list" /\ calls[i - 1].ok
            /\ calls[i].arg = run_id
            /\ run_id = FailedRun.id

\* fail with an empty list of failing runs has returned
C14_Witness ==
    /\ args.command = "fail"
    /\ last.op = "fail_list" /\ last.code = 0 /\ last.stdout = <<"[", "]">>
    /\ ~DRY_RUN
    /\ ret = <<0>>

\* the sync calls of the log, in order, as <<repository, operation>>
SyncTrace ==
    LET s == SelectSeq(calls, LAMBDA c : c.op \in SyncOps)
    IN [i \in 1..Len(s) |-> <<s[i].cwd, s[i].op>>]

\* status, add, commit, the two calls of the remote-ahead test, push
FullSync(name) ==
    <<<<name, "status">>, <<name, "add">>, <<name, "commit">>,
      <<name, "fetch">>, <<name, "rev_list">>, <<name, "push">>>>

IsPrefix(s, t) == Len(s) <= Len(t) /\ s = SubSeq(t, 1, Len(s))

\* push, not a dry run, where so far every call exited 0, each status query
\* printed changes, and no remote was found ahead
SubmoduleDirtyScenario ==
    /\ args.command = "push" /\ ~DRY_RUN
    /\ \A i \in 1..Len(calls) : calls[i].ok
    /\ clean = {}
    /\ pc # "pull" /\ ~Issued(HBB_COMMON, {"pull"}) /\ ~Issued(RS_CLIENT, {"pull"})

\* C15: push when the submodule's status shows changes, the superproject's
\* status (taken after the submodule's commit) shows changes too, no remote is
\* ahead and every call exits 0: the sync calls are status, add, commit, the
\* remote-ahead test and push in the submodule, then the same in the
\* superproject, in that order, and push returns 0; an ahead-count of 0 leads
\* to the push, not to a pull.
C15_SubmoduleThenPointer ==
    /\ SubmoduleDirtyScenario =>
        /\ IsPrefix(SyncTrace, FullSync(HBB_COMMON) \o FullSync(RS_CLIENT))
        /\ pc # "exited"
        /\ pc = "done" =>
            /\ SyncTrace = FullSync(HBB_COMMON) \o FullSync(RS_CLIENT)
            /\ ret = <<0>>
    /\ (last.op = "rev_list" /\ last.code = 0 /\ last.stdout = <<"0">>) =>
        pc = "push"

\* both repositories committed and pushed, submodule first, and push returned 0
C15_Witness ==
    /\ SubmoduleDirtyScenario
    /\ pc = "done"
    /\ SyncTrace = FullSync(HBB_COMMON) \o FullSync(RS_CLIENT)
    /\ ret = <<0>>

\* C16: a rebase-pull is issued only right after a fetch and an ahead-count
\* query in the same repository, the query having exited 0 with a count
\* greater than 0; the controller is about to pull exactly when the query
\* just answered so. After a pull that exited non-zero (a timeout included)
\* the sync has returned failure, the command has returned 1 and no push was
\* issued in that repository.
C16_PullOnlyWhenAhead ==
    /\ \A i \in 1..Len(calls) :
        calls[i].op = "pull" =>
            /\ i >= 3
            /\ calls[i - 1].op = "rev_list" /\ calls[i - 1].cwd = calls[i].cwd
            /\ calls[i - 1].ok
            /\ calls[i - 2].op = "fetch" /\ calls[i - 2].cwd = calls[i].cwd
    /\ last.op = "rev_list" =>
        (pc = "pull" <=> (last.code = 0 /\ last.stdout = <<"2">>))
    /\ pc = "pull" => last.op = "rev_list"
    /\ \A i \in 1..Len(calls) :
        (calls[i].op = "pull" /\ ~calls[i].ok) =>
            /\ i = Len(calls)
            /\ SyncedOf(calls[i].cwd) = "fail"
            /\ ~Issued(calls[i].cwd, {"push"})
            /\ pc = "done"
            /\ ret = <<1>>

\* the rebase-pull in the submodule timed out
C16_Witness ==
    /\ last.op = "pull" /\ last.cwd = HBB_COMMON
    /\ last.code = -1 /\ last.stderr = TimeoutText
    /\ SyncedOf(HBB_COMMON) = "fail"
    /\ ret = <<1>>

\* positions in `calls` of the push calls issued in repository `name`
PushCalls(name) == {i \in 1..Len(calls) : calls[i].cwd = name /\ calls[i].op = "push"}

\* C17: within one command at most one push call is issued per repository,
\* and a push that exited non-zero is the last call of the command: no fetch,
\* pull or push follows it in any repository, the sync has returned failure
\* and the command has returned 1.
C17_FailedPushNotRetried ==
    /\ \A k \in 1..Len(Repos) : Cardinality(PushCalls(Repos[k])) <= 1
    /\ \A i \in 1..Len(calls) :
        (calls[i].op = "push" /\ ~calls[i].ok) =>
            /\ i = Len(calls)
            /\ SyncedOf(calls[i].cwd) = "fail"
            /\ pc = "done"
            /\ ret = <<1>>

\* the superproject's push was rejected after the submodule's push went through
C17_Witness ==
    /\ Cardinality(PushCalls(HBB_COMMON)) = 1
    /\ last.op = "push" /\ last.cwd = RS_CLIENT /\ last.code # 0
    /\ hint
    /\ ret = <<1>>

\* C18: when the status query of a sync exits non-zero (a timeout's -1
\* included), that sync does not return success: it has returned failure and
\* the command has returned 1, no further sync having been started.
C18_StatusFailureIsSurfaced ==
    (last.op = "status" /\ last.code # 0) =>
        /\ SyncedOf(last.cwd) = "fail"
        /\ pc = "done"
        /\ ret = <<1>>

\* call b may directly follow call a within one sync
SyncStep(a, b) ==
    CASE a.op = "status" -> b.op = "add"
      [] a.op = "add" -> a.ok /\ b.op = "commit"
      [] a.op = "commit" -> a.ok /\ b.op = "fetch"
      [] a.op = "fetch" -> b.op = "rev_list"
      [] a.op = "rev_list" -> b.op \in {"pull", "push"}
      [] a.op = "pull" -> a.ok /\ b.op = "push"
      [] OTHER -> FALSE

\* the call `op` was issued in repository `name` and exited 0
IssuedOk(name, op) ==
    \E i \in 1..Len(calls) : calls[i].cwd = name /\ calls[i].op = op /\ calls[i].ok

\* C19: the calls of one sync are consecutive, start with status and follow
\* the order status, add, commit, fetch, ahead-count, optional rebase-pull,
\* push, each at most once; a commit is issued only after the add exited 0 and
\* a push only after the commit exited 0; an add that exited non-zero ends the
\* sync in failure with no commit and no push; and a sync that returned
\* success having pushed had its add, commit and push all exit 0.
C19_SyncCallOrder ==
    \A k \in 1..Len(Repos) :
        LET name == Repos[k]
            idx == SyncCalls(name)
        IN /\ \A i \in idx :
                IF i - 1 \in idx
                THEN SyncStep(calls[i - 1], calls[i])
                ELSE calls[i].op = "status" /\ \A j \in idx : j >= i
           /\ \A i \in idx, j \in idx : calls[i].op = calls[j].op => i = j
           /\ Issued(name, {"commit"}) => IssuedOk(name, "add")
           /\ Issued(name, {"push"}) => IssuedOk(name, "commit")
           /\ (Issued(name, {"add"}) /\ ~IssuedOk(name, "add")) =>
                /\ synced[k] = "fail"
                /\ ~Issued(name, {"commit", "push"})
                /\ pc = "done" /\ ret = <<1>>
           /\ (synced[k] = "ok" /\ Issued(name, {"push"})) =>
                /\ IssuedOk(name, "add")
                /\ IssuedOk(name, "commit")
                /\ IssuedOk(name, "push")

\* the superproject's add exited non-zero after the submodule was pushed
C19_Witness ==
    /\ last.op = "add" /\ last.cwd = RS_CLIENT /\ last.code # 0
    /\ IssuedOk(HBB_COMMON, "push")
    /\ SyncedOf(RS_CLIENT) = "fail"
    /\ ret = <<1>>

PreflightOps == {"gh_version", "gh_auth", "submodule_init"}

\* positions in `calls` of the sync calls and trigger calls
OrchestrationCalls ==
    {i \in 1..Len(calls) : calls[i].op \in SyncOps \cup {"workflow_run"}}

\* a pre-flight call that exited non-zero is the last call of the command,
\* which has exited with 1 having issued no sync call and no trigger call
PreflightFailureAborts ==
    \A i \in 1..Len(calls) :
        (calls[i].op \in PreflightOps /\ ~calls[i].ok) =>
            /\ i = Len(calls)
            /\ pc = "exited"
            /\ ret = <<1>>
            /\ OrchestrationCalls = {}

\* every sync or trigger call comes after the pre-flight checks of the
\* command (build runs them twice, once itself and once inside push), all of
\* which exited 0
PreflightPrecedes ==
    \A i \in OrchestrationCalls :
        LET passed(op) == {j \in 1..(i - 1) : calls[j].op = op /\ calls[j].ok}
            runs == IF args.command = "build" THEN 2 ELSE 1
        IN /\ args.command \in {"push", "build"}
           /\ Cardinality(passed("gh_version")) = runs
           /\ Cardinality(passed("gh_auth")) = runs
           /\ \A j \in 1..Len(calls) : calls[j].op \in PreflightOps => j < i

\* C20 as stated: in push and build a failed pre-flight check aborts the
\* command with exit 1 before any sync or trigger call, and sync and trigger
\* calls are issued only while both repository directories exist.
C20_OrchestrationNeedsBothDirs ==
    /\ PreflightFailureAborts
    /\ PreflightPrecedes
    /\ OrchestrationCalls # {} => (rsDirExists /\ hbbDirExists)

\* C20, amended: in push and build a failed pre-flight check aborts the
\* command with exit 1 before any sync or trigger call, and sync and trigger
\* calls are issued only when the superproject directory exists and the
\* submodule directory either exists or was missing and its init call
\* returned 0.
C20_NoOrchestrationBeforePreflight ==
    /\ PreflightFailureAborts
    /\ PreflightPrecedes
    /\ OrchestrationCalls # {} =>
        /\ rsDirExists
        /\ hbbDirExists \/ IssuedOk(RS_CLIENT, "submodule_init")

\* the submodule directory was missing and its init call exited non-zero
C20_Witness ==
    /\ args.command \in {"push", "build"}
    /\ ~hbbDirExists
    /\ last.op = "submodule_init" /\ last.code # 0
    /\ pc = "exited" /\ ret = <<1>>
    /\ OrchestrationCalls = {}

====
